---- MODULE Spec2Model ----
(***************************************************************************)
(* Window registry of the desktop shell (WindowManagerProvider in          *)
(* src/components/desktop/WindowManager.tsx): the `windows` array, the     *)
(* stacking counter `topZIndex`, the `windowOpenTimes` map and the eight   *)
(* operations handed out through the context.  Each action is one call of  *)
(* an operation followed by the re-render that commits its state updates;  *)
(* `now` is the last value read from Date.now().                           *)
(***************************************************************************)
EXTENDS Integers, Sequences, FiniteSets, TLC

VARIABLES windows, topZIndex, windowOpenTimes, now, emitted, lastOp, roundTrip, nOps,
          maxAssigned, raises, mirror,
          hook,
          batch, lastBatch,
          request, response, phase, received, enqueued, closeCalls, lateEnqueues,
          queryCalls, prompt

\* the registry as committed by the last render, with its history variables
registryVars == <<windows, topZIndex, windowOpenTimes, now, emitted, lastOp, roundTrip, nOps,
                  maxAssigned, raises, mirror>>

\* the result of the last useWindowManager() call of a consumer
hookVars == <<hook>>

\* the operations invoked since the last render, and the outcome of the last batch
batchVars == <<batch, lastBatch>>

\* one request to the chat relay (app/api/chat/route.ts)
relayVars == <<request, response, phase, received, enqueued, closeCalls, lateEnqueues,
               queryCalls, prompt>>

vars == <<registryVars, hookVars, batchVars, relayVars>>

(***************************************************************************)
(* Bounds and input sets                                                   *)
(***************************************************************************)
\* number of operations applied in one run of the registry
MaxOps == 4

\* the values Date.now() returns
Times == {1, 2}

InitialZ == 100

Ids == {"a", "b", "c"}

Positions == {<<10, 20>>, <<30, 40>>}

Sizes == {<<300, 200>>, <<400, 250>>}

\* The caller-supplied argument of openWindow: Omit<WindowState, 'zIndex' | 'isFocused'>.
OpenInputs ==
  { [id |-> i, title |-> g[1], appType |-> "app", x |-> g[2], y |-> g[3],
     width |-> g[4], height |-> g[5], isMinimized |-> m, isMaximized |-> m] :
      i \in Ids, g \in {<<"T1", 10, 20, 300, 200>>, <<"T2", 30, 40, 400, 250>>},
      m \in BOOLEAN }

NoWin == [id |-> "none"]

(***************************************************************************)
(* Array helpers                                                           *)
(***************************************************************************)
\* prev.find(w => w.id === id) is defined
Present(prev, id) == \E i \in 1..Len(prev) : prev[i].id = id

\* prev.find(w => w.id === id): the first match
Find(prev, id) == prev[CHOOSE i \in 1..Len(prev) :
                         /\ prev[i].id = id
                         /\ \A j \in 1..(i - 1) : prev[j].id # id]

\* { ...window, zIndex: newZ, isFocused: true }
NewWindow(window, newZ) ==
  [id |-> window.id, title |-> window.title, appType |-> window.appType,
   x |-> window.x, y |-> window.y, width |-> window.width, height |-> window.height,
   isMinimized |-> window.isMinimized, isMaximized |-> window.isMaximized,
   zIndex |-> newZ, isFocused |-> TRUE]

Note(fn, id, title, ms, flag) ==
  [fn |-> fn, id |-> id, title |-> title, ms |-> ms, flag |-> flag]

(***************************************************************************)
(* The updater functions passed to setWindows                              *)
(***************************************************************************)
\* variant of OpenUpdater: a new window is appended without clearing isFocused on the others
OpenUpdaterKeepFocus(prev, window, newZ) ==
  IF Present(prev, window.id)
  THEN [i \in 1..Len(prev) |->
          IF prev[i].id = window.id
          THEN [prev[i] EXCEPT !.isMinimized = FALSE, !.isFocused = TRUE, !.zIndex = newZ]
          ELSE [prev[i] EXCEPT !.isFocused = FALSE]]
  ELSE Append(prev, NewWindow(window, newZ))

\* variant of OpenUpdater: an existing record is overwritten with the supplied fields
OpenUpdaterOverwrite(prev, window, newZ) ==
  IF Present(prev, window.id)
  THEN [i \in 1..Len(prev) |->
          IF prev[i].id = window.id
          THEN [NewWindow(window, newZ) EXCEPT !.isMinimized = FALSE]
          ELSE [prev[i] EXCEPT !.isFocused = FALSE]]
  ELSE Append([i \in 1..Len(prev) |-> [prev[i] EXCEPT !.isFocused = FALSE]],
              NewWindow(window, newZ))

\* variant of OpenUpdater: re-opening a minimized window leaves its zIndex alone
OpenUpdaterReopenKeepsZ(prev, window, newZ) ==
  IF Present(prev, window.id)
  THEN IF Find(prev, window.id).isMinimized
       THEN [i \in 1..Len(prev) |->
               IF prev[i].id = window.id
               THEN [prev[i] EXCEPT !.isMinimized = FALSE, !.isFocused = TRUE]
               ELSE [prev[i] EXCEPT !.isFocused = FALSE]]
       ELSE [i \in 1..Len(prev) |->
               IF prev[i].id = window.id
               THEN [prev[i] EXCEPT !.isFocused = TRUE, !.zIndex = newZ]
               ELSE [prev[i] EXCEPT !.isFocused = FALSE]]
  ELSE Append([i \in 1..Len(prev) |-> [prev[i] EXCEPT !.isFocused = FALSE]],
              NewWindow(window, newZ))

\* variant of OpenUpdater: the record is appended whether or not the id is registered
OpenUpdaterAlwaysAppend(prev, window, newZ) ==
  Append([i \in 1..Len(prev) |-> [prev[i] EXCEPT !.isFocused = FALSE]],
         NewWindow(window, newZ))

\* variant of OpenUpdater: a new window is stacked by the number of windows
OpenUpdaterCountZ(prev, window, newZ) ==
  IF Present(prev, window.id)
  THEN [i \in 1..Len(prev) |->
          IF prev[i].id = window.id
          THEN [prev[i] EXCEPT !.isMinimized = FALSE, !.isFocused = TRUE, !.zIndex = newZ]
          ELSE [prev[i] EXCEPT !.isFocused = FALSE]]
  ELSE Append([i \in 1..Len(prev) |-> [prev[i] EXCEPT !.isFocused = FALSE]],
              NewWindow(window, InitialZ + Len(prev) + 1))

\* openWindow, lines 43-71
OpenUpdater(prev, window, newZ) ==
  IF Present(prev, window.id)
  THEN IF Find(prev, window.id).isMinimized
       THEN [i \in 1..Len(prev) |->
               IF prev[i].id = window.id
               THEN [prev[i] EXCEPT !.isMinimized = FALSE, !.isFocused = TRUE, !.zIndex = newZ]
               ELSE [prev[i] EXCEPT !.isFocused = FALSE]]
       ELSE [i \in 1..Len(prev) |->
               IF prev[i].id = window.id
               THEN [prev[i] EXCEPT !.isFocused = TRUE, !.zIndex = newZ]
               ELSE [prev[i] EXCEPT !.isFocused = FALSE]]
  ELSE Append([i \in 1..Len(prev) |-> [prev[i] EXCEPT !.isFocused = FALSE]],
              NewWindow(window, newZ))

\* notifications openWindow emits from inside the updater
OpenNotes(prev, window) ==
  IF Present(prev, window.id)
  THEN IF Find(prev, window.id).isMinimized
       THEN <<Note("logWindowOpen", window.id, window.title, 0, FALSE)>>
       ELSE <<>>
  ELSE <<Note("trackWindowOpen", window.id, "", 0, FALSE),
         Note("logWindowOpen", window.id, window.title, 0, FALSE)>>

\* setWindowOpenTimes(prev => ({ ...prev, [window.id]: Date.now() }))
SetOpenTime(times, id, t) ==
  [i \in (DOMAIN times) \cup {id} |-> IF i = id THEN t ELSE times[i]]

\* const { [id]: _, ...rest } = times; return rest
DropOpenTime(times, id) == [i \in (DOMAIN times) \ {id} |-> times[i]]

\* windowOpenTimes[id] is truthy
HasOpenTime(times, id) == id \in DOMAIN times /\ times[id] # 0

\* variant of CloseUpdater: the filter predicate is inverted
CloseUpdaterInverted(prev, id) == SelectSeq(prev, LAMBDA w : w.id = id)

\* variant of CloseUpdater: the last remaining window takes the focus
CloseUpdaterAutoFocus(prev, id) ==
  LET rest == SelectSeq(prev, LAMBDA w : w.id # id) IN
    [i \in 1..Len(rest) |->
       IF i = Len(rest) THEN [rest[i] EXCEPT !.isFocused = TRUE] ELSE rest[i]]

\* closeWindow, line 88
CloseUpdater(prev, id) == SelectSeq(prev, LAMBDA w : w.id # id)

\* closeWindow, lines 78-87
CloseTracked(prev, times, id) == Present(prev, id) /\ HasOpenTime(times, id)

CloseNotes(prev, times, id, t) ==
  IF CloseTracked(prev, times, id)
  THEN <<Note("trackWindowClose", id, "", t - times[id], FALSE),
         Note("logWindowClose", id, Find(prev, id).title, 0, FALSE)>>
  ELSE <<>>

\* variant of MinimizeUpdater: the other windows lose focus, as in focusWindow
MinimizeUpdaterUnfocusAll(prev, id) ==
  [i \in 1..Len(prev) |->
     IF prev[i].id = id
     THEN [prev[i] EXCEPT !.isMinimized = TRUE, !.isFocused = FALSE]
     ELSE [prev[i] EXCEPT !.isFocused = FALSE]]

\* variant of MinimizeUpdater: minimizing also leaves the maximized state
MinimizeUpdaterClearMaximized(prev, id) ==
  [i \in 1..Len(prev) |->
     IF prev[i].id = id
     THEN [prev[i] EXCEPT !.isMinimized = TRUE, !.isFocused = FALSE, !.isMaximized = FALSE]
     ELSE prev[i]]

\* minimizeWindow, lines 99-101
MinimizeUpdater(prev, id) ==
  [i \in 1..Len(prev) |->
     IF prev[i].id = id
     THEN [prev[i] EXCEPT !.isMinimized = TRUE, !.isFocused = FALSE]
     ELSE prev[i]]

MinimizeNotes(prev, id) ==
  IF Present(prev, id)
  THEN <<Note("trackWindowMinimize", id, "", 0, FALSE),
         Note("logWindowMinimize", id, Find(prev, id).title, 0, FALSE)>>
  ELSE <<>>

\* variant of MaximizeUpdater: the flag is set instead of negated
MaximizeUpdaterSetTrue(prev, id) ==
  [i \in 1..Len(prev) |->
     IF prev[i].id = id
     THEN [prev[i] EXCEPT !.isMaximized = TRUE]
     ELSE prev[i]]

\* maximizeWindow, lines 113-115
MaximizeUpdater(prev, id) ==
  [i \in 1..Len(prev) |->
     IF prev[i].id = id
     THEN [prev[i] EXCEPT !.isMaximized = ~prev[i].isMaximized]
     ELSE prev[i]]

MaximizeNotes(prev, id) ==
  IF Present(prev, id)
  THEN <<Note("trackWindowMaximize", id, "", 0, ~Find(prev, id).isMaximized),
         Note("logWindowMaximize", id, Find(prev, id).title, 0, ~Find(prev, id).isMaximized)>>
  ELSE <<>>

\* variant of RestoreUpdater: the counter value before the increment is assigned
RestoreUpdaterStaleZ(prev, id, newZ) ==
  [i \in 1..Len(prev) |->
     IF prev[i].id = id
     THEN [prev[i] EXCEPT !.isMinimized = FALSE, !.isFocused = TRUE, !.zIndex = newZ - 1]
     ELSE [prev[i] EXCEPT !.isFocused = FALSE]]

\* variant of RestoreUpdater: the restored window is not given the focus
RestoreUpdaterNoFocus(prev, id, newZ) ==
  [i \in 1..Len(prev) |->
     IF prev[i].id = id
     THEN [prev[i] EXCEPT !.isMinimized = FALSE, !.zIndex = newZ]
     ELSE [prev[i] EXCEPT !.isFocused = FALSE]]

\* variant of RestoreUpdater: restoring also leaves the maximized state
RestoreUpdaterClearMaximized(prev, id, newZ) ==
  [i \in 1..Len(prev) |->
     IF prev[i].id = id
     THEN [prev[i] EXCEPT !.isMinimized = FALSE, !.isMaximized = FALSE,
                          !.isFocused = TRUE, !.zIndex = newZ]
     ELSE [prev[i] EXCEPT !.isFocused = FALSE]]

\* restoreWindow, lines 122-126
RestoreUpdater(prev, id, newZ) ==
  [i \in 1..Len(prev) |->
     IF prev[i].id = id
     THEN [prev[i] EXCEPT !.isMinimized = FALSE, !.isFocused = TRUE, !.zIndex = newZ]
     ELSE [prev[i] EXCEPT !.isFocused = FALSE]]

\* variant of FocusUpdater: the focused window keeps its old zIndex
FocusUpdaterNoRaise(prev, id, newZ) ==
  [i \in 1..Len(prev) |->
     IF prev[i].id = id
     THEN [prev[i] EXCEPT !.isFocused = TRUE]
     ELSE [prev[i] EXCEPT !.isFocused = FALSE]]

\* variant of FocusUpdater: focusing also brings the window back from minimized
FocusUpdaterUnminimize(prev, id, newZ) ==
  [i \in 1..Len(prev) |->
     IF prev[i].id = id
     THEN [prev[i] EXCEPT !.isMinimized = FALSE, !.isFocused = TRUE, !.zIndex = newZ]
     ELSE [prev[i] EXCEPT !.isFocused = FALSE]]

\* focusWindow, lines 140-144
FocusUpdater(prev, id, newZ) ==
  [i \in 1..Len(prev) |->
     IF prev[i].id = id
     THEN [prev[i] EXCEPT !.isFocused = TRUE, !.zIndex = newZ]
     ELSE [prev[i] EXCEPT !.isFocused = FALSE]]

FocusNotes(prev, id) ==
  IF Present(prev, id)
  THEN <<Note("trackWindowFocus", id, "", 0, FALSE),
         Note("logWindowFocus", id, Find(prev, id).title, 0, FALSE)>>
  ELSE <<>>

\* variant of PositionUpdater: only x is written
PositionUpdaterOnlyX(prev, id, x, y) ==
  [i \in 1..Len(prev) |->
     IF prev[i].id = id THEN [prev[i] EXCEPT !.x = x] ELSE prev[i]]

\* updateWindowPosition, lines 151-153
PositionUpdater(prev, id, x, y) ==
  [i \in 1..Len(prev) |->
     IF prev[i].id = id THEN [prev[i] EXCEPT !.x = x, !.y = y] ELSE prev[i]]

\* updateWindowSize, lines 157-159
SizeUpdater(prev, id, width, height) ==
  [i \in 1..Len(prev) |->
     IF prev[i].id = id THEN [prev[i] EXCEPT !.width = width, !.height = height] ELSE prev[i]]

(***************************************************************************)
(* State                                                                   *)
(***************************************************************************)
Op(op, id, found, win) == [op |-> op, id |-> id, found |-> found, win |-> win]

NoTrip == [stage |-> "none", id |-> "none", windows |-> <<>>, top |-> 0]

\* the effect on [windows], lines 168-194: what it writes to
\* window.__WINDOW_MANAGER_STATE__ and to Sentry.setContext('desktop_windows', ...)
Published(ws) ==
  [state |->
     [windows |->
        [i \in 1..Len(ws) |->
           [id |-> ws[i].id, title |-> ws[i].title,
            isMinimized |-> ws[i].isMinimized, isMaximized |-> ws[i].isMaximized,
            isFocused |-> ws[i].isFocused,
            position |-> [x |-> ws[i].x, y |-> ws[i].y],
            size |-> [width |-> ws[i].width, height |-> ws[i].height]]]],
   desktop_windows |->
     [count |-> Len(ws),
      active |-> Len(SelectSeq(ws, LAMBDA w : ~w.isMinimized)),
      windows |->
        [i \in 1..Len(ws) |->
           [id |-> ws[i].id, title |-> ws[i].title,
            state |-> IF ws[i].isMinimized THEN "minimized"
                      ELSE IF ws[i].isMaximized THEN "maximized" ELSE "normal"]]]]

\* beforeSend, part_001 lines 183-189: what an outgoing event reads from the mirror
BeforeSend(m) ==
  [active_windows |-> Len(m.state.windows),
   focused_window |->
     IF \E i \in 1..Len(m.state.windows) : m.state.windows[i].isFocused
     THEN m.state.windows[CHOOSE i \in 1..Len(m.state.windows) :
                            /\ m.state.windows[i].isFocused
                            /\ \A j \in 1..(i - 1) : ~m.state.windows[j].isFocused].id
     ELSE "undefined"]

\* createContext<WindowManagerContextType | null>(null): the value outside a provider
NullContext == [isNull |-> TRUE]

\* the operations the provider hands out, lines 199-206
Operations ==
  {"openWindow", "closeWindow", "minimizeWindow", "maximizeWindow", "restoreWindow",
   "focusWindow", "updateWindowPosition", "updateWindowSize"}

\* the value of <WindowManagerContext.Provider>, lines 197-208
ProviderValue(ws, top) ==
  [isNull |-> FALSE, windows |-> ws, operations |-> Operations, topZIndex |-> top]

\* useContext(WindowManagerContext) in a component inside or outside a provider
UseContext(inside, ws, top) == IF inside THEN ProviderValue(ws, top) ELSE NullContext

\* no useWindowManager() call has been made
NoCall == [called |-> FALSE, provider |-> FALSE, threw |-> FALSE, value |-> NullContext]

\* no batch of operations has been rendered
NoBatch == [calls |-> 0, windows |-> <<>>, expected |-> <<>>, owed |-> <<>>]

\* no request has been received
NoRequest == [kind |-> "none", messages |-> [t |-> "undefined", items |-> <<>>]]

\* no prompt has been built
NoPrompt == [system |-> "", hasContext |-> FALSE, context |-> <<>>, user |-> ""]

\* the request has not been answered
NoResponse == [status |-> 0, error |-> "", stream |-> FALSE]

Init ==
  /\ windows = <<>>
  /\ topZIndex = InitialZ
  /\ windowOpenTimes = <<>>
  /\ now = 1
  /\ emitted = <<>>
  /\ lastOp = Op("init", "none", FALSE, NoWin)
  /\ roundTrip = NoTrip
  /\ nOps = 0
  /\ maxAssigned = 0
  /\ raises = 0
  /\ mirror = Published(<<>>)
  /\ hook = NoCall
  /\ batch = <<>>
  /\ lastBatch = NoBatch
  /\ request = NoRequest
  /\ prompt = NoPrompt
  /\ response = NoResponse
  /\ phase = "idle"
  /\ received = <<>>
  /\ enqueued = <<>>
  /\ closeCalls = 0
  /\ lateEnqueues = 0
  /\ queryCalls = 0

\* the greatest zIndex any record has been given so far, closed windows included
Assigned(ws, id) ==
  IF Present(ws, id) /\ Find(ws, id).zIndex > maxAssigned
  THEN Find(ws, id).zIndex
  ELSE maxAssigned

\* one more operation is applied, on its own: it is followed by the re-render
\* that commits it and by the effect that publishes the windows
Step ==
  /\ nOps < MaxOps
  /\ nOps' = nOps + 1
  /\ batch = <<>>
  /\ UNCHANGED <<hookVars, batchVars, relayVars>>

(***************************************************************************)
(* Operations                                                              *)
(***************************************************************************)
openWindow(window, t) ==
  /\ Step
  /\ raises' = raises + 1
  /\ LET newZ == topZIndex + 1 IN
       /\ topZIndex' = newZ
       /\ windows' = OpenUpdater(windows, window, newZ)
       /\ emitted' = OpenNotes(windows, window)
       /\ windowOpenTimes' = IF Present(windows, window.id)
                             THEN windowOpenTimes
                             ELSE SetOpenTime(windowOpenTimes, window.id, t)
       /\ now' = IF Present(windows, window.id) THEN now ELSE t
  /\ lastOp' = Op("open", window.id, Present(windows, window.id), window)
  /\ roundTrip' = IF Present(windows, window.id)
                  THEN NoTrip
                  ELSE [stage |-> "opened", id |-> window.id,
                        windows |-> windows, top |-> topZIndex]
  /\ maxAssigned' = Assigned(windows', window.id)
  /\ mirror' = Published(windows')

closeWindow(id, t) ==
  /\ Step
  /\ raises' = raises
  /\ windows' = CloseUpdater(windows, id)
  /\ emitted' = CloseNotes(windows, windowOpenTimes, id, t)
  /\ now' = IF CloseTracked(windows, windowOpenTimes, id) THEN t ELSE now
  /\ windowOpenTimes' = IF CloseTracked(windows, windowOpenTimes, id)
                        THEN DropOpenTime(windowOpenTimes, id)
                        ELSE windowOpenTimes
  /\ lastOp' = Op("close", id, Present(windows, id), NoWin)
  /\ roundTrip' = IF roundTrip.stage = "opened" /\ roundTrip.id = id
                  THEN [roundTrip EXCEPT !.stage = "closed"]
                  ELSE NoTrip
  /\ UNCHANGED <<topZIndex, maxAssigned>>
  /\ mirror' = Published(windows')

minimizeWindow(id) ==
  /\ Step
  /\ raises' = raises
  /\ windows' = MinimizeUpdater(windows, id)
  /\ emitted' = MinimizeNotes(windows, id)
  /\ lastOp' = Op("minimize", id, Present(windows, id), NoWin)
  /\ roundTrip' = NoTrip
  /\ UNCHANGED <<topZIndex, windowOpenTimes, now, maxAssigned>>
  /\ mirror' = Published(windows')

maximizeWindow(id) ==
  /\ Step
  /\ raises' = raises
  /\ windows' = MaximizeUpdater(windows, id)
  /\ emitted' = MaximizeNotes(windows, id)
  /\ lastOp' = Op("maximize", id, Present(windows, id), NoWin)
  /\ roundTrip' = IF roundTrip.stage = "maximized" /\ roundTrip.id = id
                  THEN [roundTrip EXCEPT !.stage = "maximizedTwice"]
                  ELSE [stage |-> "maximized", id |-> id,
                        windows |-> windows, top |-> topZIndex]
  /\ UNCHANGED <<topZIndex, windowOpenTimes, now, maxAssigned>>
  /\ mirror' = Published(windows')

\* variant of restoreWindow: the stacking counter moves only when id is registered
restoreWindowIfPresent(id) ==
  /\ Step
  /\ raises' = raises + 1
  /\ LET newZ == topZIndex + 1 IN
       /\ topZIndex' = IF Present(windows, id) THEN newZ ELSE topZIndex
       /\ windows' = RestoreUpdater(windows, id, newZ)
  /\ emitted' = <<>>
  /\ lastOp' = Op("restore", id, Present(windows, id), NoWin)
  /\ roundTrip' = NoTrip
  /\ maxAssigned' = Assigned(windows', id)
  /\ UNCHANGED <<windowOpenTimes, now>>
  /\ mirror' = Published(windows')

restoreWindow(id) ==
  /\ Step
  /\ raises' = raises + 1
  /\ LET newZ == topZIndex + 1 IN
       /\ topZIndex' = newZ
       /\ windows' = RestoreUpdater(windows, id, newZ)
  /\ emitted' = <<>>
  /\ lastOp' = Op("restore", id, Present(windows, id), NoWin)
  /\ roundTrip' = NoTrip
  /\ maxAssigned' = Assigned(windows', id)
  /\ UNCHANGED <<windowOpenTimes, now>>
  /\ mirror' = Published(windows')

focusWindow(id) ==
  /\ Step
  /\ raises' = raises + 1
  /\ LET newZ == topZIndex + 1 IN
       /\ topZIndex' = newZ
       /\ windows' = FocusUpdater(windows, id, newZ)
  /\ emitted' = FocusNotes(windows, id)
  /\ lastOp' = Op("focus", id, Present(windows, id), NoWin)
  /\ roundTrip' = NoTrip
  /\ maxAssigned' = Assigned(windows', id)
  /\ UNCHANGED <<windowOpenTimes, now>>
  /\ mirror' = Published(windows')

updateWindowPosition(id, x, y) ==
  /\ Step
  /\ raises' = raises
  /\ windows' = PositionUpdater(windows, id, x, y)
  /\ emitted' = <<>>
  /\ lastOp' = Op("updatePosition", id, Present(windows, id), [id |-> id, x |-> x, y |-> y])
  /\ roundTrip' = NoTrip
  /\ UNCHANGED <<topZIndex, windowOpenTimes, now, maxAssigned>>
  /\ mirror' = Published(windows')

updateWindowSize(id, width, height) ==
  /\ Step
  /\ raises' = raises
  /\ windows' = SizeUpdater(windows, id, width, height)
  /\ emitted' = <<>>
  /\ lastOp' = Op("updateSize", id, Present(windows, id),
                [id |-> id, width |-> width, height |-> height])
  /\ roundTrip' = NoTrip
  /\ UNCHANGED <<topZIndex, windowOpenTimes, now, maxAssigned>>
  /\ mirror' = Published(windows')

\* variant of useWindowManager: outside a provider the null context is returned
useWindowManagerSilent(inside) ==
  /\ hook' = [called |-> TRUE, provider |-> inside, threw |-> FALSE,
              value |-> UseContext(inside, windows, topZIndex)]
  /\ UNCHANGED <<registryVars, batchVars, relayVars>>

\* useWindowManager, lines 23-29, called by a component inside or outside a provider
useWindowManager(inside) ==
  /\ LET context == UseContext(inside, windows, topZIndex) IN
       hook' = IF context.isNull
               THEN [called |-> TRUE, provider |-> inside, threw |-> TRUE,
                     value |-> NullContext]
               ELSE [called |-> TRUE, provider |-> inside, threw |-> FALSE,
                     value |-> context]
  /\ UNCHANGED <<registryVars, batchVars, relayVars>>

\* the values Date.now() can return: not before the last reading
Clock == {t \in Times : t >= now}

\* the operations, all invoked at one reading of the clock
Next ==
  \/ \E window \in OpenInputs : openWindow(window, now)
  \/ \E id \in Ids : closeWindow(id, now)
  \/ \E id \in Ids : minimizeWindow(id)
  \/ \E id \in Ids : maximizeWindow(id)
  \/ \E id \in Ids : restoreWindow(id)
  \/ \E id \in Ids : focusWindow(id)
  \/ \E id \in Ids, p \in Positions : updateWindowPosition(id, p[1], p[2])
  \/ \E id \in Ids, s \in Sizes : updateWindowSize(id, s[1], s[2])

Spec == Init /\ [][Next]_vars

\* the operations, with Date.now() advancing between them
NextClock ==
  \/ \E window \in OpenInputs, t \in Clock : openWindow(window, t)
  \/ \E id \in Ids, t \in Clock : closeWindow(id, t)
  \/ \E id \in Ids : minimizeWindow(id)
  \/ \E id \in Ids : maximizeWindow(id)
  \/ \E id \in Ids : restoreWindow(id)
  \/ \E id \in Ids : focusWindow(id)
  \/ \E id \in Ids, p \in Positions : updateWindowPosition(id, p[1], p[2])
  \/ \E id \in Ids, s \in Sizes : updateWindowSize(id, s[1], s[2])

SpecClock == Init /\ [][NextClock]_vars

\* consumers obtaining the surface while windows are opened and closed
NextHook ==
  \/ \E window \in OpenInputs : openWindow(window, now)
  \/ \E id \in Ids : closeWindow(id, now)
  \/ \E inside \in BOOLEAN : useWindowManager(inside)

SpecHook == Init /\ [][NextHook]_vars

(***************************************************************************)
(* Operations invoked back to back, before the next render.  A call of     *)
(* closeWindow, minimizeWindow, maximizeWindow, updateWindowPosition or    *)
(* updateWindowSize passes its updater to setWindows at once.  A call of   *)
(* openWindow, restoreWindow or focusWindow passes an updater to           *)
(* setTopZIndex, and it is that updater which calls setWindows: React runs *)
(* it at the call when the component has no update pending (the eager      *)
(* computation of dispatchSetState) and otherwise in the next render,      *)
(* after the updaters already queued on `windows`.  Every callback of the  *)
(* batch closes over the windowOpenTimes of the last render.               *)
(***************************************************************************)
\* the operations that call setTopZIndex
RaiseOps == {"open", "focus", "restore"}

\* number of calls dispatched in one run of batches
MaxCalls == MaxOps - 1

BatchIds == {"a", "b"}

BatchOpenInputs ==
  {w \in OpenInputs : w.id \in BatchIds /\ w.title = "T1" /\ ~w.isMinimized}

Call(op, id, win, eager) == [op |-> op, id |-> id, win |-> win, eager |-> eager]

\* the setTopZIndex updater of the call waits for the render
Deferred(c) == c.op \in RaiseOps /\ ~c.eager

\* whether React may run the setTopZIndex updater at the call: only when no
\* update is pending on the component, and then depending on the lanes left
\* on the fiber by earlier renders
EagerChoices == IF batch = <<>> THEN BOOLEAN ELSE {FALSE}

\* one more call in the current batch
Dispatch(c) ==
  /\ nOps < MaxCalls
  /\ nOps' = nOps + 1
  /\ batch' = Append(batch, c)
  /\ UNCHANGED <<windows, topZIndex, windowOpenTimes, now, emitted, lastOp, roundTrip,
                 maxAssigned, raises, mirror, lastBatch, hookVars, relayVars>>

callOpenWindow(window, eager) == Dispatch(Call("open", window.id, window, eager))

callCloseWindow(id) == Dispatch(Call("close", id, NoWin, FALSE))

callMinimizeWindow(id) == Dispatch(Call("minimize", id, NoWin, FALSE))

callMaximizeWindow(id) == Dispatch(Call("maximize", id, NoWin, FALSE))

callRestoreWindow(id, eager) == Dispatch(Call("restore", id, NoWin, eager))

callFocusWindow(id, eager) == Dispatch(Call("focus", id, NoWin, eager))

callUpdateWindowPosition(id, x, y) ==
  Dispatch(Call("updatePosition", id, [id |-> id, x |-> x, y |-> y], FALSE))

callUpdateWindowSize(id, width, height) ==
  Dispatch(Call("updateSize", id, [id |-> id, width |-> width, height |-> height], FALSE))

\* each call with the value its setTopZIndex updater computes: the updaters
\* of that queue run in invocation order, each adding one
WithNewZ(b, top) ==
  [i \in 1..Len(b) |->
     [call |-> b[i],
      newZ |-> top + Cardinality({j \in 1..i : b[j].op \in RaiseOps})]]

\* the setWindows updater of one call
ApplyWindows(ws, c, newZ) ==
  CASE c.op = "open" -> OpenUpdater(ws, c.win, newZ)
    [] c.op = "close" -> CloseUpdater(ws, c.id)
    [] c.op = "minimize" -> MinimizeUpdater(ws, c.id)
    [] c.op = "maximize" -> MaximizeUpdater(ws, c.id)
    [] c.op = "restore" -> RestoreUpdater(ws, c.id, newZ)
    [] c.op = "focus" -> FocusUpdater(ws, c.id, newZ)
    [] c.op = "updatePosition" -> PositionUpdater(ws, c.id, c.win.x, c.win.y)
    [] c.op = "updateSize" -> SizeUpdater(ws, c.id, c.win.width, c.win.height)

\* the notifications the updater of one call emits; closure is the
\* windowOpenTimes its closeWindow callback closed over
ApplyNotes(ws, c, closure, t) ==
  CASE c.op = "open" -> OpenNotes(ws, c.win)
    [] c.op = "close" -> CloseNotes(ws, closure, c.id, t)
    [] c.op = "minimize" -> MinimizeNotes(ws, c.id)
    [] c.op = "maximize" -> MaximizeNotes(ws, c.id)
    [] c.op = "focus" -> FocusNotes(ws, c.id)
    [] OTHER -> <<>>

\* the setWindowOpenTimes updater the updater of one call enqueues, if any
ApplyTimes(ws, times, c, closure, t) ==
  CASE c.op = "open" /\ ~Present(ws, c.id) -> SetOpenTime(times, c.id, t)
    [] c.op = "close" /\ CloseTracked(ws, closure, c.id) -> DropOpenTime(times, c.id)
    [] OTHER -> times

\* a close of a registered window whose open timestamp has been recorded
\* owes a "closed" notification with the time elapsed since that timestamp
Owed(ws, times, c, t) ==
  IF c.op = "close" /\ CloseTracked(ws, times, c.id)
  THEN <<[id |-> c.id, ms |-> t - times[c.id]]>>
  ELSE <<>>

\* the updaters of cs run in order on st; with fresh = TRUE every callback
\* sees the windowOpenTimes left by the calls before it (a render after each
\* call), otherwise the map of the last render
RECURSIVE RunUpdaters(_, _, _, _, _)
RunUpdaters(cs, st, fresh, committed, t) ==
  IF cs = <<>> THEN st
  ELSE LET c == Head(cs).call
           closure == IF fresh THEN st.times ELSE committed
       IN RunUpdaters(Tail(cs),
            [windows |-> ApplyWindows(st.windows, c, Head(cs).newZ),
             times |-> ApplyTimes(st.windows, st.times, c, closure, t),
             notes |-> st.notes \o ApplyNotes(st.windows, c, closure, t),
             owed |-> st.owed \o Owed(st.windows, st.times, c, t)],
            fresh, committed, t)

\* variant of RenderOrder: every updater runs in the order of the calls
RenderOrderAsInvoked(b) == b

\* the order in which a render runs the setWindows updaters of a batch: those
\* passed at the call first, then those of the setTopZIndex updaters it runs
RenderOrder(b) ==
  SelectSeq(b, LAMBDA e : ~Deferred(e.call)) \o SelectSeq(b, LAMBDA e : Deferred(e.call))

\* the render that commits the batch, at Date.now() = t
Render(t) ==
  /\ batch # <<>>
  /\ LET calls == WithNewZ(batch, topZIndex)
         st0 == [windows |-> windows, times |-> windowOpenTimes, notes |-> <<>>,
                 owed |-> <<>>]
         done == RunUpdaters(RenderOrder(calls), st0, FALSE, windowOpenTimes, t)
         atomic == RunUpdaters(calls, st0, TRUE, windowOpenTimes, t)
     IN /\ windows' = done.windows
        /\ windowOpenTimes' = done.times
        /\ emitted' = done.notes
        /\ topZIndex' = topZIndex + Len(SelectSeq(batch, LAMBDA c : c.op \in RaiseOps))
        /\ raises' = raises + Len(SelectSeq(batch, LAMBDA c : c.op \in RaiseOps))
        /\ lastBatch' = [calls |-> Len(batch), windows |-> done.windows,
                         expected |-> atomic.windows, owed |-> done.owed]
  /\ now' = t
  /\ batch' = <<>>
  /\ mirror' = Published(windows')
  /\ UNCHANGED <<lastOp, roundTrip, nOps, maxAssigned, hookVars, relayVars>>

NextBatch ==
  \/ \E window \in BatchOpenInputs, eager \in EagerChoices : callOpenWindow(window, eager)
  \/ \E id \in BatchIds : callCloseWindow(id)
  \/ \E id \in BatchIds : callMinimizeWindow(id)
  \/ \E id \in BatchIds : callMaximizeWindow(id)
  \/ \E id \in BatchIds, eager \in EagerChoices : callRestoreWindow(id, eager)
  \/ \E id \in BatchIds, eager \in EagerChoices : callFocusWindow(id, eager)
  \/ \E id \in BatchIds : callUpdateWindowPosition(id, 30, 40)
  \/ \E id \in BatchIds : callUpdateWindowSize(id, 400, 250)
  \/ \E t \in Clock : Render(t)

SpecBatch == Init /\ [][NextBatch]_vars

(***************************************************************************)
(* The chat relay: POST of app/api/chat/route.ts.  One request is          *)
(* validated and answered; a valid request gets a ReadableStream whose     *)
(* start() iterates the agent query and enqueues server-sent events.       *)
(***************************************************************************)
\* number of entries of a `messages` array
MaxItems == 2

\* number of messages the agent query yields before it returns or throws
MaxMessages == 3

Roles == {"user", "assistant", "system"}

\* an entry of the `messages` array: null or { role, content }
Items ==
  {[isNull |-> TRUE, role |-> "", content |-> ""]} \cup
  {[isNull |-> FALSE, role |-> r, content |-> "p"] : r \in Roles}

ItemSeqs == UNION {[1..n -> Items] : n \in 0..MaxItems}

\* the values of the body's `messages` property
MessagesValues ==
  {[t |-> k, items |-> <<>>] : k \in {"undefined", "null", "emptyString", "string", "object"}}
    \cup {[t |-> "array", items |-> q] : q \in ItemSeqs}

\* what request.json() gives: a rejection, null, or a value with properties
Bodies ==
  {[kind |-> k, messages |-> [t |-> "undefined", items |-> <<>>]] :
      k \in {"unparsable", "null"}}
    \cup {[kind |-> "object", messages |-> v] : v \in MessagesValues}

\* !messages is false
Truthy(v) == v.t \notin {"undefined", "null", "emptyString"}

IsArray(v) == v.t = "array"

\* messages.filter(m => m.role === 'user') reads m.role of every entry
FilterThrows(items) == \E i \in 1..Len(items) : items[i].isNull

\* messages.filter(m => m.role === 'user').pop() is defined
HasUserMessage(items) == \E i \in 1..Len(items) : items[i].role = "user"

JsonError(status, error) == [status |-> status, error |-> error, stream |-> FALSE]

\* variant of Respond: an array without a user message is answered like a failure
RespondNoUserAsFailure(body) ==
  IF body.kind \in {"unparsable", "null"}
  THEN JsonError(500, "Failed to process chat request. Check server logs for details.")
  ELSE IF ~Truthy(body.messages) \/ ~IsArray(body.messages)
  THEN JsonError(400, "Messages array is required")
  ELSE IF FilterThrows(body.messages.items) \/ ~HasUserMessage(body.messages.items)
  THEN JsonError(500, "Failed to process chat request. Check server logs for details.")
  ELSE [status |-> 200, error |-> "", stream |-> TRUE]

\* the response of POST, lines 80-108, 319-326 and 328-354
Respond(body) ==
  IF body.kind \in {"unparsable", "null"}
  THEN JsonError(500, "Failed to process chat request. Check server logs for details.")
  ELSE IF ~Truthy(body.messages) \/ ~IsArray(body.messages)
  THEN JsonError(400, "Messages array is required")
  ELSE IF FilterThrows(body.messages.items)
  THEN JsonError(500, "Failed to process chat request. Check server logs for details.")
  ELSE IF ~HasUserMessage(body.messages.items)
  THEN JsonError(400, "No user message found")
  ELSE [status |-> 200, error |-> "", stream |-> TRUE]

\* `${m.role === 'user' ? 'User' : 'Assistant'}: ${m.content}`
Turn(m) ==
  [label |-> IF m.role = "user" THEN "User" ELSE "Assistant", content |-> m.content]

\* messages.filter(m => m.role === 'user').pop()
LastUserMessage(items) ==
  items[CHOOSE i \in 1..Len(items) :
          /\ items[i].role = "user"
          /\ \A j \in (i + 1)..Len(items) : items[j].role # "user"]

\* messages.slice(0, -1).map(...): the turns joined into conversationContext
ConversationContext(items) ==
  [i \in 1..(IF Len(items) = 0 THEN 0 ELSE Len(items) - 1) |-> Turn(items[i])]

\* fullPrompt, lines 116-118: the system prompt, the previous conversation
\* when conversationContext is not the empty string, and the final User turn
FullPrompt(items) ==
  [system |-> "SYSTEM_PROMPT",
   hasContext |-> ConversationContext(items) # <<>>,
   context |-> ConversationContext(items),
   user |-> LastUserMessage(items).content]

\* the messages the agent query yields
Message(type, event, tools, subtype) ==
  [type |-> type, event |-> event, tools |-> tools, subtype |-> subtype]

Messages ==
  {Message("stream_event", "text_delta", <<>>, ""),
   Message("stream_event", "message_start", <<>>, ""),
   Message("assistant", "", <<>>, ""),
   Message("assistant", "", <<"Read">>, ""),
   Message("assistant", "", <<"Read", "Bash">>, ""),
   Message("tool_progress", "", <<"Read">>, ""),
   Message("result", "", <<>>, "success"),
   Message("result", "", <<>>, "error_max_turns"),
   Message("system", "", <<>>, "")}

Event(type, detail) == [type |-> type, detail |-> detail]

\* 'data: [DONE]\n\n'
Sentinel == Event("[DONE]", "")

StreamError == Event("error", "Stream error occurred")

\* variant of MessageEvents: every result message is reported as done
MessageEventsDoneOnAnyResult(message) ==
  CASE message.type = "stream_event" /\ message.event = "text_delta" ->
         <<Event("text_delta", "text")>>
    [] message.type = "assistant" ->
         [i \in 1..Len(message.tools) |-> Event("tool_start", message.tools[i])]
    [] message.type = "tool_progress" -> <<Event("tool_progress", message.tools[1])>>
    [] message.type = "result" -> <<Event("done", "")>>
    [] OTHER -> <<>>

\* the events the loop body enqueues for one message, lines 161-280
MessageEvents(message) ==
  CASE message.type = "stream_event" /\ message.event = "text_delta" ->
         <<Event("text_delta", "text")>>
    [] message.type = "assistant" ->
         [i \in 1..Len(message.tools) |-> Event("tool_start", message.tools[i])]
    [] message.type = "tool_progress" -> <<Event("tool_progress", message.tools[1])>>
    [] message.type = "result" /\ message.subtype = "success" -> <<Event("done", "")>>
    [] message.type = "result" /\ message.subtype # "success" ->
         <<Event("error", "Query did not complete successfully")>>
    [] OTHER -> <<>>

\* controller.enqueue of each event of evs: on a closed controller it fails
Enqueue(evs) ==
  IF closeCalls > 0
  THEN /\ lateEnqueues' = lateEnqueues + Len(evs)
       /\ enqueued' = enqueued
  ELSE /\ lateEnqueues' = lateEnqueues
       /\ enqueued' = enqueued \o evs

\* POST up to the return of the response; start() runs up to its first await
POST(body) ==
  /\ phase = "idle"
  /\ request' = body
  /\ response' = Respond(body)
  /\ phase' = IF Respond(body).stream THEN "iterating" ELSE "answered"
  /\ queryCalls' = IF Respond(body).stream THEN queryCalls + 1 ELSE queryCalls
  /\ prompt' = IF Respond(body).stream THEN FullPrompt(body.messages.items) ELSE NoPrompt
  /\ UNCHANGED <<received, enqueued, closeCalls, lateEnqueues>>
  /\ UNCHANGED <<registryVars, hookVars, batchVars>>

\* one turn of the for await loop, lines 149-281
queryYields(message) ==
  /\ phase = "iterating"
  /\ Len(received) < MaxMessages
  /\ received' = Append(received, message)
  /\ Enqueue(MessageEvents(message))
  /\ UNCHANGED <<request, response, phase, closeCalls, queryCalls, prompt>>
  /\ UNCHANGED <<registryVars, hookVars, batchVars>>

\* variant of queryReturns: the controller is closed before the sentinel is enqueued
queryReturnsCloseFirst ==
  /\ phase = "iterating"
  /\ closeCalls' = closeCalls + 1
  /\ lateEnqueues' = lateEnqueues + 1
  /\ phase' = "finished"
  /\ UNCHANGED <<request, response, received, enqueued, queryCalls, prompt>>
  /\ UNCHANGED <<registryVars, hookVars, batchVars>>

\* the iteration finishes, lines 285-287
queryReturns ==
  /\ phase = "iterating"
  /\ Enqueue(<<Sentinel>>)
  /\ closeCalls' = closeCalls + 1
  /\ phase' = "finished"
  /\ UNCHANGED <<request, response, received, queryCalls, prompt>>
  /\ UNCHANGED <<registryVars, hookVars, batchVars>>

\* the iteration throws, lines 289-315
queryThrows ==
  /\ phase = "iterating"
  /\ Enqueue(<<StreamError>>)
  /\ closeCalls' = closeCalls + 1
  /\ phase' = "threw"
  /\ UNCHANGED <<request, response, received, queryCalls, prompt>>
  /\ UNCHANGED <<registryVars, hookVars, batchVars>>

NextRelay ==
  \/ \E body \in Bodies : POST(body)
  \/ \E message \in Messages : queryYields(message)
  \/ queryReturns
  \/ queryThrows

SpecRelay == Init /\ [][NextRelay]_vars

\* the contents that tell the entries of one array apart
Contents == {"p", "q", "r"}

PromptItems ==
  {[isNull |-> TRUE, role |-> "", content |-> ""]} \cup
  {[isNull |-> FALSE, role |-> r, content |-> c] : r \in Roles, c \in Contents}

\* the bodies whose `messages` is an array of such entries
PromptBodies ==
  {[kind |-> "object", messages |-> [t |-> "array", items |-> q]] :
      q \in UNION {[1..n -> PromptItems] : n \in 0..MaxItems}}

\* POST on a conversation, up to the construction of the prompt
NextPrompt == \E body \in PromptBodies : POST(body)

SpecPrompt == Init /\ [][NextPrompt]_vars

(***************************************************************************)
(* Properties of the registry                                              *)
(***************************************************************************)
FocusedIdx(ws) == {i \in 1..Len(ws) : ws[i].isFocused}

Unfocused(ws) == [i \in 1..Len(ws) |-> [ws[i] EXCEPT !.isFocused = FALSE]]

\* the step just taken applied an operation (it is not a stuttering step)
OpStep == nOps' = nOps + 1

\* C1: in every reachable state at most one window has isFocused = true.
AtMostOneFocused == Cardinality(FocusedIdx(windows)) <= 1

AtMostOneFocusedWitness ==
  /\ Len(windows) = 3
  /\ Cardinality(FocusedIdx(windows)) = 1
  /\ lastOp.op = "open"

\* C2: in every reachable state no window has isMinimized = true and
\* isFocused = true at the same time.
NoMinimizedFocused ==
  \A i \in 1..Len(windows) : ~(windows[i].isMinimized /\ windows[i].isFocused)

\* C3: in every reachable state the zIndex values of the registered windows
\* are pairwise distinct.
ZIndexDistinct ==
  \A i, j \in 1..Len(windows) : i # j => windows[i].zIndex # windows[j].zIndex

ZIndexDistinctWitness ==
  /\ Len(windows) = 3
  /\ lastOp.op = "restore"
  /\ lastOp.found

\* C4: right after openWindow, focusWindow or restoreWindow on a window that
\* is present (or created by the open), that window's zIndex is strictly
\* greater than the zIndex of every other registered window.
RaisedWindowOnTop ==
  (lastOp.op \in RaiseOps /\ Present(windows, lastOp.id)) =>
     \A i \in 1..Len(windows) :
        windows[i].id # lastOp.id => Find(windows, lastOp.id).zIndex > windows[i].zIndex

RaisedWindowOnTopWitness ==
  /\ Len(windows) = 3
  /\ lastOp.op = "focus"
  /\ lastOp.found
  /\ windows[1].id = lastOp.id

\* C5 (as stated): whenever the registry is non-empty and the last operation
\* was openWindow, focusWindow or restoreWindow, for any id argument, exactly
\* one window has isFocused = true.
OneFocusedAfterAnyRaise ==
  (lastOp.op \in RaiseOps /\ Len(windows) > 0) =>
     Cardinality(FocusedIdx(windows)) = 1

\* C5 (amended): whenever the registry is non-empty and the last operation
\* was openWindow, or focusWindow or restoreWindow with a registered id,
\* exactly one window has isFocused = true.
OneFocusedAfterRaiseOfPresent ==
  ((lastOp.op = "open" \/ (lastOp.op \in {"focus", "restore"} /\ lastOp.found))
      /\ Len(windows) > 0) =>
     Cardinality(FocusedIdx(windows)) = 1

OneFocusedAfterRaiseOfPresentWitness ==
  /\ lastOp.op = "restore"
  /\ lastOp.found
  /\ Len(windows) >= 2
  /\ Cardinality(FocusedIdx(windows)) = 1

\* C6: restoreWindow(id) and focusWindow(id) with an id that is not
\* registered leave every window record exactly as it was.
AbsentRaiseIsNoop ==
  [][(OpStep /\ lastOp'.op \in {"restore", "focus"} /\ ~lastOp'.found)
        => windows' = windows]_vars

\* C7: closeWindow, minimizeWindow, maximizeWindow, updateWindowPosition and
\* updateWindowSize with an id that is not registered emit no notification
\* and leave every window record and the stacking counter unchanged.
AbsentIdIsSilentNoop ==
  [][(OpStep /\ ~lastOp'.found
        /\ lastOp'.op \in {"close", "minimize", "maximize", "updatePosition", "updateSize"})
        => (windows' = windows /\ topZIndex' = topZIndex /\ Len(emitted') = 0)]_vars

AbsentIdIsSilentNoopWitness ==
  /\ lastOp.op \in {"close", "minimize", "maximize", "updatePosition", "updateSize"}
  /\ ~lastOp.found
  /\ Len(windows) >= 2
  /\ Cardinality(FocusedIdx(windows)) = 1

\* C8 (as stated): openWindow(id) on an unregistered id followed by
\* closeWindow(id) yields a window set identical to the one before the open in
\* every field, including which window is focused; the counter is not smaller.
OpenCloseRoundTrip ==
  roundTrip.stage = "closed" =>
     (windows = roundTrip.windows /\ topZIndex >= roundTrip.top)

\* C8 (amended): openWindow(id) on an unregistered id followed by
\* closeWindow(id) yields the window set before the open with isFocused = false
\* on every window and every other field unchanged; the counter is not smaller.
OpenCloseRoundTripUnfocused ==
  roundTrip.stage = "closed" =>
     (windows = Unfocused(roundTrip.windows) /\ topZIndex >= roundTrip.top)

OpenCloseRoundTripUnfocusedWitness ==
  /\ roundTrip.stage = "closed"
  /\ lastOp.op = "close"
  /\ Cardinality(FocusedIdx(roundTrip.windows)) = 1

\* C9: openWindow with an unregistered id appends exactly one record with the
\* supplied title, appType, x, y, width, height and isMinimized = false,
\* isMaximized = false, isFocused = true, zIndex = the next stacking value;
\* every other window gets isFocused = false and is otherwise unchanged.
OpenCreatesNormalWindow ==
  [][(OpStep /\ lastOp'.op = "open" /\ ~lastOp'.found) =>
        LET n == Len(windows)
            w == lastOp'.win
        IN /\ Len(windows') = n + 1
           /\ windows'[n + 1] =
                [id |-> w.id, title |-> w.title, appType |-> w.appType,
                 x |-> w.x, y |-> w.y, width |-> w.width, height |-> w.height,
                 isMinimized |-> FALSE, isMaximized |-> FALSE,
                 zIndex |-> topZIndex + 1, isFocused |-> TRUE]
           /\ \A i \in 1..n : windows'[i] = [windows[i] EXCEPT !.isFocused = FALSE]]_vars

\* C10: openWindow with a registered id never changes that window's title,
\* appType, x, y, width, height or isMaximized and adds no record; it only
\* focuses and unminimizes it, gives it a new zIndex and unfocuses the others.
ReopenKeepsRecord ==
  [][(OpStep /\ lastOp'.op = "open" /\ lastOp'.found) =>
        /\ Len(windows') = Len(windows)
        /\ \A i \in 1..Len(windows) :
             windows'[i] =
               IF windows[i].id = lastOp'.id
               THEN [windows[i] EXCEPT !.isFocused = TRUE, !.isMinimized = FALSE,
                                       !.zIndex = topZIndex + 1]
               ELSE [windows[i] EXCEPT !.isFocused = FALSE]]_vars

ReopenKeepsRecordWitness ==
  /\ lastOp.op = "open"
  /\ lastOp.found
  /\ Len(windows) >= 2
  /\ LET w == Find(windows, lastOp.id) IN
       /\ w.title # lastOp.win.title
       /\ w.x # lastOp.win.x
       /\ w.width # lastOp.win.width
       /\ w.isMaximized # lastOp.win.isMaximized

\* C11: for every registered window with isMinimized = true, openWindow(id, ...)
\* and restoreWindow(id) produce the same window set and the same counter.
ReopenMinimizedIsRestore ==
  [][(OpStep /\ lastOp'.op \in {"open", "restore"} /\ lastOp'.found
        /\ Find(windows, lastOp'.id).isMinimized) =>
        /\ windows' = RestoreUpdater(windows, lastOp'.id, topZIndex + 1)
        /\ \A window \in OpenInputs :
             window.id = lastOp'.id => windows' = OpenUpdater(windows, window, topZIndex + 1)
        /\ topZIndex' = topZIndex + 1]_vars

ReopenMinimizedIsRestoreWitness ==
  /\ lastOp.op = "open"
  /\ lastOp.found
  /\ Len(emitted) = 1
  /\ emitted[1].fn = "logWindowOpen"
  /\ Len(windows) >= 2
  /\ ~Find(windows, lastOp.id).isMinimized

\* C12: in every reachable state each id occurs in at most one record of
\* `windows`.
IdsUnique ==
  \A i, j \in 1..Len(windows) : i # j => windows[i].id # windows[j].id

IdsUniqueWitness ==
  /\ lastOp.op = "open"
  /\ ~lastOp.found
  /\ nOps >= 3
  /\ Len(windows) = 1

\* the position of the record with this id
IndexOf(ws, id) == CHOOSE i \in 1..Len(ws) : ws[i].id = id

\* C13: closeWindow(id) on a registered id removes exactly that record and
\* leaves every other record unchanged in every field (no window becomes
\* focused, no zIndex changes); the stacking counter is unchanged.
CloseRemovesOnlyTarget ==
  [][(OpStep /\ lastOp'.op = "close" /\ lastOp'.found) =>
        LET k == IndexOf(windows, lastOp'.id) IN
          /\ windows' = SubSeq(windows, 1, k - 1) \o SubSeq(windows, k + 1, Len(windows))
          /\ ~Present(windows', lastOp'.id)
          /\ topZIndex' = topZIndex]_vars

CloseRemovesOnlyTargetWitness ==
  /\ lastOp.op = "close"
  /\ lastOp.found
  /\ Len(windows) = 2
  /\ FocusedIdx(windows) = {}

\* C14: minimizeWindow(id) on a registered id sets that window's
\* isMinimized = true and isFocused = false and changes nothing else: the
\* window's other fields, every other window and the counter are unchanged.
MinimizeFrame ==
  [][(OpStep /\ lastOp'.op = "minimize" /\ lastOp'.found) =>
        /\ Len(windows') = Len(windows)
        /\ \A i \in 1..Len(windows) :
             windows'[i] =
               IF windows[i].id = lastOp'.id
               THEN [windows[i] EXCEPT !.isMinimized = TRUE, !.isFocused = FALSE]
               ELSE windows[i]
        /\ topZIndex' = topZIndex]_vars

MinimizeFrameWitness ==
  /\ lastOp.op = "minimize"
  /\ lastOp.found
  /\ Len(windows) >= 2
  /\ FocusedIdx(windows) = {}
  /\ Find(windows, lastOp.id).isMinimized
  /\ Find(windows, lastOp.id).isMaximized
  /\ \E i \in 1..Len(windows) : ~windows[i].isMinimized

\* C15: maximizeWindow(id) on a registered id negates that window's
\* isMaximized and changes no other field of it, no other window and not the
\* counter; calling it twice in a row returns the window set to the state
\* before the first call.
MaximizeToggles ==
  [][(OpStep /\ lastOp'.op = "maximize" /\ lastOp'.found) =>
        /\ Len(windows') = Len(windows)
        /\ \A i \in 1..Len(windows) :
             windows'[i] =
               IF windows[i].id = lastOp'.id
               THEN [windows[i] EXCEPT !.isMaximized = ~windows[i].isMaximized]
               ELSE windows[i]
        /\ topZIndex' = topZIndex
        /\ (roundTrip'.stage = "maximizedTwice" => windows' = roundTrip'.windows)]_vars

MaximizeTogglesWitness ==
  /\ lastOp.op = "maximize"
  /\ lastOp.found
  /\ roundTrip.stage = "maximizedTwice"
  /\ Len(windows) >= 2
  /\ ~Find(windows, lastOp.id).isMaximized

\* C16: focusWindow(id) on a registered id sets that window focused with the
\* new maximum zIndex and unfocuses all others; every other window's zIndex
\* and the isMinimized, isMaximized and geometry of every window, the target
\* included, are unchanged.
FocusFrame ==
  [][(OpStep /\ lastOp'.op = "focus" /\ lastOp'.found) =>
        /\ Len(windows') = Len(windows)
        /\ \A i \in 1..Len(windows) :
             windows'[i] =
               IF windows[i].id = lastOp'.id
               THEN [windows[i] EXCEPT !.isFocused = TRUE, !.zIndex = topZIndex + 1]
               ELSE [windows[i] EXCEPT !.isFocused = FALSE]
        /\ \A i \in 1..Len(windows) :
             windows[i].id # lastOp'.id => topZIndex + 1 > windows'[i].zIndex]_vars

FocusFrameWitness ==
  /\ lastOp.op = "focus"
  /\ lastOp.found
  /\ Len(windows) = 2
  /\ Find(windows, lastOp.id).isMinimized
  /\ Find(windows, lastOp.id).isFocused

\* C17: updateWindowPosition(id, x, y) on a registered id overwrites only that
\* window's x and y, and updateWindowSize(id, w, h) only its width and height;
\* nothing else changes, and of two successive updates to the same window the
\* later values are the final ones.
GeometryFrame ==
  [][/\ (OpStep /\ lastOp'.op = "updatePosition" /\ lastOp'.found) =>
          /\ Len(windows') = Len(windows)
          /\ \A i \in 1..Len(windows) :
               windows'[i] =
                 IF windows[i].id = lastOp'.id
                 THEN [windows[i] EXCEPT !.x = lastOp'.win.x, !.y = lastOp'.win.y]
                 ELSE windows[i]
          /\ topZIndex' = topZIndex
          /\ \A q \in Positions :
               LET again == PositionUpdater(windows', lastOp'.id, q[1], q[2]) IN
                 /\ Find(again, lastOp'.id).x = q[1]
                 /\ Find(again, lastOp'.id).y = q[2]
                 /\ again = PositionUpdater(windows, lastOp'.id, q[1], q[2])
     /\ (OpStep /\ lastOp'.op = "updateSize" /\ lastOp'.found) =>
          /\ Len(windows') = Len(windows)
          /\ \A i \in 1..Len(windows) :
               windows'[i] =
                 IF windows[i].id = lastOp'.id
                 THEN [windows[i] EXCEPT !.width = lastOp'.win.width,
                                         !.height = lastOp'.win.height]
                 ELSE windows[i]
          /\ topZIndex' = topZIndex
          /\ \A q \in Sizes :
               LET again == SizeUpdater(windows', lastOp'.id, q[1], q[2]) IN
                 /\ Find(again, lastOp'.id).width = q[1]
                 /\ Find(again, lastOp'.id).height = q[2]
                 /\ again = SizeUpdater(windows, lastOp'.id, q[1], q[2])]_vars

GeometryFrameWitness ==
  /\ lastOp.op = "updatePosition"
  /\ lastOp.found
  /\ Len(windows) >= 2
  /\ LET w == Find(windows, lastOp.id) IN
       /\ w.title = "T1"
       /\ w.x = 30
       /\ w.y = 40
       /\ w.width = 400

\* C18: the stacking counter never decreases, and every zIndex assigned by
\* openWindow, focusWindow or restoreWindow is strictly greater than every
\* zIndex assigned earlier, values of closed windows included.
StackingNeverReused ==
  [][/\ topZIndex' >= topZIndex
     /\ (OpStep /\ lastOp'.op \in RaiseOps /\ Present(windows', lastOp'.id)) =>
          /\ Find(windows', lastOp'.id).zIndex > maxAssigned
          /\ \A i \in 1..Len(windows) : Find(windows', lastOp'.id).zIndex > windows[i].zIndex]_vars

StackingNeverReusedWitness ==
  /\ lastOp.op = "open"
  /\ ~lastOp.found
  /\ Len(windows) = 1
  /\ maxAssigned = windows[1].zIndex
  /\ windows[1].zIndex >= InitialZ + 3

\* the record with this id is registered and minimized
MinimizedIn(ws, id) == Present(ws, id) /\ Find(ws, id).isMinimized

\* C19: a window's isMinimized becomes true only in a minimizeWindow step on
\* that id (a window is never minimized as a result of open, focus, restore,
\* maximize, close of another id or a geometry update), and becomes false
\* only in an openWindow or restoreWindow step on that id.
MinimizedOnlyByMinimize ==
  [][OpStep =>
       \A id \in Ids :
          /\ (MinimizedIn(windows', id) /\ ~MinimizedIn(windows, id)) =>
                (lastOp'.op = "minimize" /\ lastOp'.id = id)
          /\ (MinimizedIn(windows, id) /\ Present(windows', id)
                /\ ~MinimizedIn(windows', id)) =>
                (lastOp'.op \in {"open", "restore"} /\ lastOp'.id = id)]_vars

\* C20: a registered window's isMaximized changes only in a maximizeWindow
\* step on that id; every other operation leaves it unchanged.
MaximizedOnlyByMaximize ==
  [][OpStep =>
       \A id \in Ids :
          (Present(windows, id) /\ Present(windows', id)
             /\ Find(windows', id).isMaximized # Find(windows, id).isMaximized) =>
             (lastOp'.op = "maximize" /\ lastOp'.id = id)]_vars

MaximizedOnlyByMaximizeWitness ==
  /\ lastOp.op = "restore"
  /\ lastOp.found
  /\ Len(windows) >= 2
  /\ Find(windows, lastOp.id).isMaximized
  /\ \E i \in 1..Len(windows) : ~windows[i].isMaximized

\* the "opened" notifications among those an operation emitted
OpenedNotes(ns) ==
  {i \in 1..Len(ns) : ns[i].fn \in {"trackWindowOpen", "logWindowOpen"}}

\* C21: openWindow emits an "opened" notification exactly when it creates a
\* brand-new record: one trackWindowOpen and one logWindowOpen per creation,
\* and none when the call re-focuses a visible window or restores a minimized one.
OpenedOnlyOnCreation ==
  [][(OpStep /\ lastOp'.op = "open") =>
       IF lastOp'.found
       THEN OpenedNotes(emitted') = {}
       ELSE /\ Cardinality(OpenedNotes(emitted')) = 2
            /\ \E i, j \in OpenedNotes(emitted') :
                 /\ emitted'[i].fn = "trackWindowOpen" /\ emitted'[i].id = lastOp'.id
                 /\ emitted'[j].fn = "logWindowOpen" /\ emitted'[j].id = lastOp'.id]_vars

\* the mirror holds every registered window, with the fields the effect copies
MirrorComplete ==
  /\ Len(mirror.state.windows) = Len(windows)
  /\ \A i \in 1..Len(windows) :
       LET m == mirror.state.windows[i] IN
         /\ m.id = windows[i].id /\ m.title = windows[i].title
         /\ m.isMinimized = windows[i].isMinimized
         /\ m.isMaximized = windows[i].isMaximized
         /\ m.isFocused = windows[i].isFocused
         /\ m.position = [x |-> windows[i].x, y |-> windows[i].y]
         /\ m.size = [width |-> windows[i].width, height |-> windows[i].height]
  /\ mirror.desktop_windows.count = Len(windows)
  /\ BeforeSend(mirror).active_windows = Len(windows)
  /\ \A i \in 1..Len(windows) : mirror.desktop_windows.windows[i].id = windows[i].id

\* C24: every snapshot published to the mirror is the complete window set at
\* the end of a completed operation, never a partial transition, and in it at
\* most one window is focused and no window is both minimized and focused.
MirrorConsistent ==
  /\ MirrorComplete
  /\ Cardinality({i \in 1..Len(mirror.state.windows) :
                    mirror.state.windows[i].isFocused}) <= 1
  /\ \A i \in 1..Len(mirror.state.windows) :
       ~(mirror.state.windows[i].isMinimized /\ mirror.state.windows[i].isFocused)

\* C27: every registered window's zIndex is above the initial counter value
\* and at most topZIndex, and topZIndex is the initial value plus the number
\* of openWindow, focusWindow and restoreWindow calls applied so far, calls
\* with an absent id included.
StackingCounterCounts ==
  /\ \A i \in 1..Len(windows) :
       windows[i].zIndex > InitialZ /\ windows[i].zIndex <= topZIndex
  /\ topZIndex = InitialZ + raises

StackingCounterCountsWitness ==
  /\ raises = 3
  /\ lastOp.op \in {"focus", "restore"} /\ ~lastOp.found
  /\ Len(windows) = 1
  /\ nOps = 4

\* C25: useWindowManager called with no active provider throws and returns
\* no surface; inside an active provider it does not throw and returns the
\* eight operations together with the current windows.
HookThrowsOutsideProvider ==
  [][(hook'.called /\ hook' # hook) =>
       IF hook'.provider
       THEN /\ ~hook'.threw
            /\ ~hook'.value.isNull
            /\ hook'.value.windows = windows'
            /\ hook'.value.operations = Operations
            /\ Cardinality(hook'.value.operations) = 8
       ELSE /\ hook'.threw
            /\ hook'.value = NullContext]_vars

HookThrowsOutsideProviderWitness ==
  /\ hook.called /\ ~hook.provider /\ hook.threw
  /\ Len(windows) = 2

\* the "closed" metrics among the notifications of a render
ClosedNotes(ns) ==
  LET cl == SelectSeq(ns, LAMBDA n : n.fn = "trackWindowClose")
  IN [i \in 1..Len(cl) |-> [id |-> cl[i].id, ms |-> cl[i].ms]]

\* C22: closeWindow(id) on a registered window whose open timestamp was
\* recorded emits one "closed" notification carrying the time elapsed since
\* that id's most recent creating open, and afterwards the bookkeeping map
\* holds no entry for id, also when the close is invoked right after the
\* open, before any re-render.
CloseReportsLifetime ==
  /\ ClosedNotes(emitted) = lastBatch.owed
  /\ \A i \in 1..Len(lastBatch.owed) :
       ~Present(windows, lastBatch.owed[i].id) =>
          lastBatch.owed[i].id \notin DOMAIN windowOpenTimes

\* C23: operations invoked back to back before a render leave the window set
\* that applying them one at a time in invocation order gives; an open,
\* restore or focus never takes effect after a later close, minimize,
\* maximize or geometry update.
BatchEqualsInvocationOrder == lastBatch.windows = lastBatch.expected

\* C26: the ids that have an entry in windowOpenTimes are the ids of the
\* registered windows; no entry outlives its window.
OpenTimesMatchWindows ==
  batch = <<>> =>
    DOMAIN windowOpenTimes = {windows[i].id : i \in 1..Len(windows)}

(***************************************************************************)
(* Properties of the chat relay                                            *)
(***************************************************************************)
Count(q, e) == Cardinality({i \in 1..Len(q) : q[i] = e})

\* C28: whenever the agent query iteration ends, by finishing or by
\* throwing, the stream controller is closed exactly once, and no event is
\* enqueued after the close.
StreamClosedOnce ==
  /\ phase \in {"finished", "threw"} => closeCalls = 1
  /\ phase \notin {"finished", "threw"} => closeCalls = 0
  /\ lateEnqueues = 0

StreamClosedOnceWitness ==
  /\ phase = "threw"
  /\ Len(received) = 2
  /\ closeCalls = 1

\* C29: the last event enqueued before the close is the [DONE] sentinel
\* exactly when the iteration finished without throwing, whatever the result
\* subtype; otherwise it is a single 'Stream error occurred' event and no
\* sentinel is enqueued.  A done event is enqueued only for a result message
\* with subtype success, and precedes the sentinel.
SentinelOnlyOnNormalEnd ==
  /\ phase = "finished" =>
       /\ enqueued # <<>>
       /\ enqueued[Len(enqueued)] = Sentinel
       /\ Count(enqueued, Sentinel) = 1
       /\ Count(enqueued, StreamError) = 0
  /\ phase = "threw" =>
       /\ enqueued # <<>>
       /\ enqueued[Len(enqueued)] = StreamError
       /\ Count(enqueued, StreamError) = 1
       /\ Count(enqueued, Sentinel) = 0
  /\ phase = "iterating" =>
       Count(enqueued, Sentinel) = 0 /\ Count(enqueued, StreamError) = 0
  /\ Count(enqueued, Event("done", "")) =
       Count(received, Message("result", "", <<>>, "success"))
  /\ \A i, j \in 1..Len(enqueued) :
       (enqueued[i] = Event("done", "") /\ enqueued[j] = Sentinel) => i < j

SentinelOnlyOnNormalEndWitness ==
  /\ phase = "finished"
  /\ \E i \in 1..Len(received) :
       received[i].type = "result" /\ received[i].subtype # "success"
  /\ \E i \in 1..Len(received) :
       received[i].type = "result" /\ received[i].subtype = "success"

\* the body was parsed and has no `messages` array with a user message in it
NoUserMessage(body) ==
  /\ body.kind # "unparsable"
  /\ \/ body.kind = "null"
     \/ ~IsArray(body.messages)
     \/ ~HasUserMessage(body.messages.items)

\* C30: POST answers with status 400 and a JSON error, without creating a
\* stream or invoking the agent query, whenever the body's messages is
\* missing or not an array or holds no message with role user; a streaming
\* response is returned only when at least one user message exists.
RejectsWithoutUserMessage ==
  phase # "idle" =>
    /\ NoUserMessage(request) =>
         /\ response.status = 400 /\ response.error # ""
         /\ ~response.stream /\ queryCalls = 0
    /\ response.stream => ~NoUserMessage(request)

\* the body parsed to a value with properties and no entry of messages is null
WellFormed(body) ==
  /\ body.kind = "object"
  /\ IsArray(body.messages) => ~FilterThrows(body.messages.items)

\* C30, amended: the 400 answer is given when the body parsed to a non-null
\* value and its messages is missing, not an array, or an array of non-null
\* entries without a user message.  A body that does not parse, a null body
\* and an array with a null entry are answered with status 500 and a JSON
\* error.  In every rejection no stream is created and the agent query is
\* not invoked, and a streaming response is returned only when at least one
\* user message exists.
RejectsWithoutUserMessageWellFormed ==
  phase # "idle" =>
    /\ (WellFormed(request) /\ NoUserMessage(request)) =>
         response.status = 400 /\ response.error # ""
    /\ ~WellFormed(request) => response.status = 500 /\ response.error # ""
    /\ response.status \in {400, 500} =>
         /\ ~response.stream /\ queryCalls = 0
         /\ enqueued = <<>> /\ phase = "answered"
    /\ response.stream =>
         /\ WellFormed(request) /\ ~NoUserMessage(request)
         /\ response.status = 200

RejectsWithoutUserMessageWellFormedWitness ==
  /\ phase = "answered"
  /\ response.status = 400
  /\ IsArray(request.messages)
  /\ Len(request.messages.items) = 2

\* the index of the last user message of items
LastUserIdx(items) ==
  CHOOSE i \in 1..Len(items) :
    /\ items[i].role = "user"
    /\ \A j \in (i + 1)..Len(items) : items[j].role # "user"

\* items without its entry at index k, in the original order
Without(items, k) ==
  [i \in 1..(Len(items) - 1) |-> IF i < k THEN items[i] ELSE items[i + 1]]

\* C31: for every messages array with at least one user message the prompt
\* holds each input message exactly once: every message other than the last
\* user message as the previous conversation, in the original order, and then
\* the last user message as the final User turn; nothing is dropped or
\* duplicated, also when the last entry of the array is an assistant message.
PromptHoldsEachMessageOnce ==
  response.stream =>
    LET items == request.messages.items
        k == LastUserIdx(items)
        rest == Without(items, k)
    IN /\ prompt.context = [i \in 1..Len(rest) |-> Turn(rest[i])]
       /\ prompt.hasContext = (rest # <<>>)
       /\ prompt.user = items[k].content

====
